---- MODULE Spec2Model ----
(***************************************************************************)
(* A model of the hand-tracking aim trainer: the App screen machine        *)
(* (src/App.tsx), the per-frame session loop of GameCanvas                 *)
(* (src/components/GameCanvas.tsx) and the coach call                      *)
(* (src/services/geminiService.ts).                                        *)
(*                                                                         *)
(* Units.  Times are integer milliseconds, as Date.now() returns them.     *)
(* Canvas coordinates are integer pixels of the 1280x720 logical canvas;   *)
(* the normalised hand coordinates (floats in [0,1]) are kept in units of  *)
(* 1/HandDen.  Ratios computed by a floating-point division (accuracy,     *)
(* avgReactionTime) are kept as the pair <<numerator, denominator>> of     *)
(* that division.                                                          *)
(***************************************************************************)
EXTENDS Integers, Sequences, FiniteSets

\* ------------------------------------------------------------------ program constants
TARGET_RADIUS_BASE == 40
CANVAS_WIDTH == 1280
CANVAS_HEIGHT == 720
LifeTime == 3000
SpawnInterval == 800
GameDuration == 30
ScoreBase == 100
StreakBonus == 10

\* ------------------------------------------------------------------ bounds of the model
\* Date.now() at the moment the page is loaded (any value far above SpawnInterval).
Epoch == 100000
\* Simulation steps (calls of update) over a run of Spec and of SpecPlay.
MaxFrames == 3
\* Simulation steps over a run of SpecIdle: more than a whole session takes.
MaxIdleFrames == 40
\* Sessions started (start and retry together).
MaxSessions == 2
MaxCycles == 3
\* Denominator of the normalised hand coordinates.
HandDen == 16

\* Spec, the whole program.  Milliseconds between two frames; what
\* spawnTarget draws (the position randomRange gives, and the milliseconds by
\* which its Date.now() is later than tick's); the cursors the detection loop
\* writes (x, y in 1/HandDen, and the pinch).
FrameDeltas == {3000, 30000}
Spawns == {[pos |-> <<640, 360>>, skew |-> 0]}
HandCursors == [x : {8}, y : {8}, isPinching : BOOLEAN]

\* SpecPlay, one session in detail.  The cursor starts at (640, 360): the
\* targets are at its centre, 30 away, and 40 away (on the boundary circle).
PlayDeltas == {800, 3000, 30000}
PlaySpawns == {[pos |-> <<640, 360>>, skew |-> 0], [pos |-> <<640, 360>>, skew |-> 1],
               [pos |-> <<610, 360>>, skew |-> 0], [pos |-> <<616, 328>>, skew |-> 0]}
PlayCursors == [x : {7, 8}, y : {8}, isPinching : BOOLEAN]

\* SpecIdle, a session in which nobody shoots.
IdleDeltas == {800, 801}

\* ------------------------------------------------------------------ pure helpers
Max(a, b) == IF a >= b THEN a ELSE b

RECURSIVE SumSeq(_)
SumSeq(s) == IF s = <<>> THEN 0 ELSE Head(s) + SumSeq(Tail(s))

\* distance(x1, y1, x2, y2) squared: the square root is increasing, so
\* distance < r is DistSq < r * r for r >= 0.
DistSq(x1, y1, x2, y2) == (x2 - x1) * (x2 - x1) + (y2 - y1) * (y2 - y1)

\* Within with the boundary circle counted as inside.
WithinInclusive(cx, cy, t) == DistSq(cx, cy, t.x, t.y) <= t.radius * t.radius

\* dist < target.radius
Within(cx, cy, t) == DistSq(cx, cy, t.x, t.y) < t.radius * t.radius

\* handCursor.current.x * CANVAS_WIDTH
RawX(c) == (c.x * CANVAS_WIDTH) \div HandDen
RawY(c) == (c.y * CANVAS_HEIGHT) \div HandDen

\* cur + (raw - cur) * 0.4, the product rounded down to the pixel.
Smooth(cur, raw) == cur + ((raw - cur) * 4) \div 10

\* DidShoot on the level of the pinch instead of its rising edge.
DidShootLevel(isPinching, isPinchingPrevious) == isPinching

\* isPinching && !state.isPinchingPrevious
DidShoot(isPinching, isPinchingPrevious) == isPinching /\ ~isPinchingPrevious

\* SpawnDue with a spawn already at exactly the interval.
SpawnDueInclusive(time, lastSpawn) == time - lastSpawn >= SpawnInterval

\* time - state.lastSpawn > 800
SpawnDue(time, lastSpawn) == time - lastSpawn > SpawnInterval

\* NewTarget with a digit of the lifetime dropped: 300 ms.
NewTargetShortLife(pos, at) ==
    [x |-> pos[1], y |-> pos[2], radius |-> TARGET_RADIUS_BASE,
     spawnTime |-> at, lifeTime |-> LifeTime \div 10, isHit |-> FALSE]

\* The Target spawnTarget pushes.
NewTarget(pos, at) ==
    [x |-> pos[1], y |-> pos[2], radius |-> TARGET_RADIUS_BASE,
     spawnTime |-> at, lifeTime |-> LifeTime, isHit |-> FALSE]

\* IsActive without the test of the age.
IsActiveNoExpiry(t, time) == ~t.isHit

\* The filter of activeTargets.
IsActive(t, time) == ~t.isHit /\ (time - t.spawnTime < t.lifeTime)

\* HitIndex with the scan run forwards: the first active target the cursor is within.
HitIndexForward(ts, time, cx, cy) ==
    LET q == {i \in 1..Len(ts) : IsActive(ts[i], time) /\ Within(cx, cy, ts[i])}
    IN  IF q = {} THEN 0 ELSE CHOOSE i \in q : \A j \in q : i <= j

\* The index in ts the backwards scan stops at: the last active target the
\* cursor is within; 0 when the scan finds none.
HitIndex(ts, time, cx, cy) ==
    LET q == {i \in 1..Len(ts) : IsActive(ts[i], time) /\ Within(cx, cy, ts[i])}
    IN  IF q = {} THEN 0 ELSE CHOOSE i \in q : \A j \in q : j <= i

\* target.isHit = true
MarkHit(ts, i) == IF i = 0 THEN ts ELSE [ts EXCEPT ![i].isHit = TRUE]

\* Survives with a target kept through the step at which its age equals its lifetime.
SurvivesInclusive(t, time) ==
    LET alive == (time - t.spawnTime <= t.lifeTime) \/ t.isHit
    IN  alive /\ ~t.isHit

\* Survives with hit targets kept for as long as they count as alive.
SurvivesKeepHit(t, time) == (time - t.spawnTime < t.lifeTime) \/ t.isHit

\* The filter of step 4: alive && !t.isHit.
Survives(t, time) ==
    LET alive == (time - t.spawnTime < t.lifeTime) \/ t.isHit
    IN  alive /\ ~t.isHit

Cleanup(ts, time) == LET keep(t) == Survives(t, time) IN SelectSeq(ts, keep)

\* HitScore with the streak read after it is incremented.
HitScoreAfter(currentStreak) == ScoreBase + (currentStreak + 1) * StreakBonus

\* The score a hit adds: 100 + (state.currentStreak * 10), the streak read
\* before it is incremented.
HitScore(currentStreak) == ScoreBase + currentStreak * StreakBonus

\* NextStreak with the reset on a miss left out.
NextStreakNoReset(currentStreak, didShoot, hit) ==
    IF didShoot /\ hit THEN currentStreak + 1 ELSE currentStreak

\* state.currentStreak after the shot of a step: incremented by a hit, reset
\* by a miss, left alone when no shot fired.
NextStreak(currentStreak, didShoot, hit) ==
    IF ~didShoot THEN currentStreak
    ELSE IF hit THEN currentStreak + 1
    ELSE 0

\* NextStats with a hit counted on both sides, without the else.
NextStatsHitAlsoMiss(s, currentStreak, didShoot, hit) ==
    IF ~didShoot THEN s
    ELSE IF hit
    THEN [s EXCEPT !.score = @ + HitScore(currentStreak),
                   !.hits = @ + 1,
                   !.misses = @ + 1,
                   !.bestStreak = IF NextStreak(currentStreak, didShoot, hit) > @
                                  THEN NextStreak(currentStreak, didShoot, hit) ELSE @]
    ELSE [s EXCEPT !.misses = @ + 1]

\* statsRef.current after the shot of a step.
NextStats(s, currentStreak, didShoot, hit) ==
    IF ~didShoot THEN s
    ELSE IF hit
    THEN [s EXCEPT !.score = @ + HitScore(currentStreak),
                   !.hits = @ + 1,
                   !.bestStreak = IF NextStreak(currentStreak, didShoot, hit) > @
                                  THEN NextStreak(currentStreak, didShoot, hit) ELSE @]
    ELSE [s EXCEPT !.misses = @ + 1]

\* Accuracy as hits per miss instead of hits per shot.
AccuracyPerMiss(hits, misses) ==
    IF hits + misses > 0 THEN <<hits * 100, misses>> ELSE <<0, 1>>

\* totalShots > 0 ? (hits / totalShots) * 100 : 0
Accuracy(hits, misses) ==
    LET totalShots == hits + misses
    IN  IF totalShots > 0 THEN <<hits * 100, totalShots>> ELSE <<0, 1>>

\* reactionTimes.length > 0 ? totalReaction / reactionTimes.length : 0
AvgReactionTime(reactionTimes) ==
    IF Len(reactionTimes) > 0 THEN <<SumSeq(reactionTimes), Len(reactionTimes)>>
    ELSE <<0, 1>>

\* Remaining with the elapsed time left in milliseconds against a duration in seconds.
RemainingUnitSlip(time, startTime) == Max(0, GameDuration - (time - startTime))

\* Math.max(0, gameDuration - elapsed), in milliseconds.
Remaining(time, startTime) == Max(0, GameDuration * 1000 - (time - startTime))

\* ------------------------------------------------------------------ the coach call
\* The value JSON.parse gives for the text of a response: the keys of the
\* object it parses to, or a SyntaxError.
JsonParse(text) ==
    CASE text = "full"    -> [threw |-> FALSE, keys |-> {"summary", "tips", "rank"}]
      [] text = "partial" -> [threw |-> FALSE, keys |-> {"summary"}]
      [] OTHER            -> [threw |-> TRUE, keys |-> {}]

\* What the collaborator can answer: a rejected request, or a response whose
\* text is empty, is no JSON, is JSON short of a key, or is the full structure.
Responses == {"reject", "empty", "garbage", "partial", "full"}

NoKeyFallback == [kind |-> "object", keys |-> {"summary", "tips", "rank"}, from |-> "nokey"]
ErrorFallback == [kind |-> "object", keys |-> {"summary", "tips", "rank"}, from |-> "catch"]
Null == [kind |-> "null", keys |-> {}, from |-> "none"]

\* getCoachFeedback: what the promise settles to, for a key and an answer of
\* the collaborator.
GetCoachFeedback(key, response) ==
    IF key = "" THEN [threw |-> FALSE, value |-> NoKeyFallback]
    ELSE IF response = "reject" THEN [threw |-> FALSE, value |-> ErrorFallback]
    ELSE IF response = "empty" THEN [threw |-> FALSE, value |-> Null]
    ELSE LET parsed == JsonParse(response)
         IN  IF parsed.threw THEN [threw |-> FALSE, value |-> ErrorFallback]
             ELSE [threw |-> FALSE,
                   value |-> [kind |-> "object", keys |-> parsed.keys, from |-> "ai"]]

\* ------------------------------------------------------------------ state
VARIABLES
    now,                \* the wall clock, Date.now()
    apiKey,             \* process.env.API_KEY || ''
    gameState,          \* App: 'menu' | 'playing' | 'summary'
    stats,              \* App: the stats of the summary, or null
    aiFeedback,         \* App: the coach's feedback, or null
    isLoadingFeedback,  \* App
    cursorRef,          \* App: the shared HandCursor slot
    calls,              \* getCoachFeedback calls not yet settled (session numbers)
    targetsRef,         \* GameCanvas: the target list
    statsRef,           \* GameCanvas: the session's GameStats
    state,              \* GameCanvas: gameStateRef.current
    timeLeft,           \* GameCanvas: the displayed remaining time, ms
    tickScheduled,      \* GameCanvas: a requestAnimationFrame(tick) is pending
    frames,             \* update calls so far (bounded by MaxFrames)
    session,            \* sessions started so far (bounded by MaxSessions)
    obs,                \* what the last tick did (observation only)
    lastCoach,          \* what getCoachFeedback last settled to (observation only)
    tracker,            \* HandTracker: its refs, its state and its async init
    handed              \* the stats objects passed to onGameOver, one per ended session

vars == <<now, apiKey, gameState, stats, aiFeedback, isLoadingFeedback, cursorRef,
          calls, targetsRef, statsRef, state, timeLeft, tickScheduled, frames,
          session, obs, lastCoach, tracker, handed>>

appVars == <<gameState, stats, aiFeedback, isLoadingFeedback, calls, handed>>
canvasVars == <<targetsRef, statsRef, state, timeLeft, tickScheduled>>

NoStats == [score |-> 0, hits |-> 0, misses |-> 0, accuracy |-> <<0, 1>>,
            avgReactionTime |-> <<0, 1>>, bestStreak |-> 0]

\* The initial value of statsRef.
InitialStats == NoStats

\* The initial value of gameStateRef, for a component mounted at time t.
InitialGameState(t) ==
    [lastSpawn |-> 0, startTime |-> t, currentStreak |-> 0, reactionTimes |-> <<>>,
     isPinchingPrevious |-> FALSE, cursorX |-> CANVAS_WIDTH \div 2,
     cursorY |-> CANVAS_HEIGHT \div 2]

NoObs == [kind |-> "none", time |-> 0, didShoot |-> FALSE, spawned |-> FALSE,
          cursor |-> [x |-> 0, y |-> 0, isPinching |-> FALSE],
          pre |-> <<>>, post |-> <<>>, overs |-> 0, spawnCount |-> 0,
          expireCount |-> 0, log |-> <<>>]

\* HandTracker as mounted: its refs and state before init has done anything.
\* pc is where init stands; stream is the camera stream it acquired;
\* scheduled says a requestAnimationFrame(predictWebcam) is pending; cycles,
\* lastDetect, lastWrite and prevWrite observe the detection cycles (the two
\* latest onCursorUpdate calls, and how many update steps had run at each).
InitialTracker ==
    [mounted |-> TRUE, pc |-> "vision", landmarker |-> FALSE, stream |-> "none",
     srcObject |-> FALSE, videoRef |-> TRUE, scheduled |-> FALSE, loading |-> TRUE,
     error |-> FALSE, lastVideoTime |-> -1, videoTime |-> 0, cycles |-> 0,
     lastDetect |-> "none",
     lastWrite |-> [x |-> HandDen \div 2, y |-> HandDen \div 2, isPinching |-> FALSE],
     lastWriteAt |-> -1,
     prevWrite |-> [x |-> HandDen \div 2, y |-> HandDen \div 2, isPinching |-> FALSE],
     prevWriteAt |-> -1]

\* A write that stores the position and leaves the pinch flag for later.
SlotAfterTorn(slot, cursor) == [cursor EXCEPT !.isPinching = slot.isPinching]

\* cursorRef.current = cursor: the slot after a write of cursor.
SlotAfter(slot, cursor) == cursor

Init ==
    /\ now = Epoch
    /\ apiKey \in {"", "key"}
    /\ gameState = "menu"
    /\ stats = [null |-> TRUE, value |-> NoStats]
    /\ aiFeedback = Null
    /\ isLoadingFeedback = FALSE
    /\ cursorRef = [x |-> HandDen \div 2, y |-> HandDen \div 2, isPinching |-> FALSE]
    /\ calls = {}
    /\ targetsRef = <<>>
    /\ statsRef = InitialStats
    /\ state = InitialGameState(Epoch)
    /\ timeLeft = GameDuration * 1000
    /\ tickScheduled = FALSE
    /\ frames = 0
    /\ session = 0
    /\ obs = NoObs
    /\ lastCoach = [session |-> 0, response |-> "none", threw |-> FALSE, value |-> Null,
                    during |-> "none"]
    /\ handed = <<>>
    /\ tracker = InitialTracker

\* ------------------------------------------------------------------ App
\* Buttons shown whatever the UI state.
ButtonShownAlways(button, ui) == TRUE

\* Where App renders its buttons: the start button in the menu branch, the
\* retry and main-menu buttons in the summary branch.
ButtonShown(button, ui) ==
    CASE button = "start" -> ui = "menu"
      [] button = "retry" -> ui = "summary"
      [] button = "menu"  -> ui = "summary"

\* A ref that outlives the component: the previous instance's value.
FreshRefKept(old, initial) == old

\* useRef(initial) in a GameCanvas that has just mounted: the initial value,
\* whatever the ref of the previous instance held.
FreshRef(old, initial) == initial

\* handleCursorUpdate, called by the detection loop with the cursor of a hand.
HandleCursorUpdate(cursor) ==
    /\ cursorRef' = SlotAfter(cursorRef, cursor)
    /\ UNCHANGED <<now, apiKey, appVars, canvasVars, frames, session, obs, lastCoach,
                   tracker>>

\* startGame (the menu's and the summary's button), and the mount of
\* GameCanvas that the render of 'playing' brings.
StartGame ==
    /\ ButtonShown("start", gameState) \/ ButtonShown("retry", gameState)
    /\ session < MaxSessions
    /\ gameState' = "playing"
    /\ stats' = [null |-> TRUE, value |-> NoStats]
    /\ aiFeedback' = Null
    /\ targetsRef' = FreshRef(targetsRef, <<>>)
    /\ statsRef' = FreshRef(statsRef, InitialStats)
    /\ state' = FreshRef(state, InitialGameState(now))
    /\ timeLeft' = GameDuration * 1000
    /\ tickScheduled' = TRUE
    /\ session' = session + 1
    /\ obs' = [NoObs EXCEPT !.kind = "mount", !.time = now]
    /\ UNCHANGED <<now, apiKey, isLoadingFeedback, cursorRef, calls, frames, lastCoach,
                   tracker, handed>>

\* The summary's Main Menu button.
MainMenu ==
    /\ ButtonShown("menu", gameState)
    /\ gameState' = "menu"
    /\ UNCHANGED <<now, apiKey, stats, aiFeedback, isLoadingFeedback, cursorRef,
                   calls, canvasVars, frames, session, obs, lastCoach, tracker, handed>>

\* The rest of handleGameOver, once getCoachFeedback has settled for the call
\* of session s.
CoachSettles(s, response) ==
    /\ s \in calls
    /\ calls' = calls \ {s}
    /\ LET r == GetCoachFeedback(apiKey, response)
       IN  /\ lastCoach' = [session |-> s, response |-> response, threw |-> r.threw,
                            value |-> r.value, during |-> gameState]
           /\ IF r.threw
              THEN UNCHANGED <<aiFeedback, isLoadingFeedback>>
              ELSE /\ aiFeedback' = r.value
                   /\ isLoadingFeedback' = FALSE
    /\ UNCHANGED <<now, apiKey, gameState, stats, cursorRef, canvasVars, frames,
                   session, obs, tracker, handed>>

\* ------------------------------------------------------------------ GameCanvas
\* handleGameOver up to its await: the stats go to the summary and the coach
\* call of this session is issued.
HandleGameOver(finalStats) ==
    /\ stats' = [null |-> FALSE, value |-> finalStats]
    /\ gameState' = "summary"
    /\ isLoadingFeedback' = TRUE
    /\ calls' = calls \cup {session}
    /\ handed' = Append(handed, finalStats)
    /\ UNCHANGED aiFeedback

\* The Game Over branch of tick: the derived stats, onGameOver, and no new
\* frame request; the unmount that follows cancels nothing that is pending.
GameOver(time) ==
    /\ statsRef' = [statsRef EXCEPT
                      !.accuracy = Accuracy(statsRef.hits, statsRef.misses),
                      !.avgReactionTime = AvgReactionTime(state.reactionTimes)]
    /\ HandleGameOver(statsRef')
    /\ tickScheduled' = FALSE
    /\ now' = time
    /\ obs' = [obs EXCEPT !.kind = "over", !.time = time, !.didShoot = FALSE,
                          !.spawned = FALSE, !.overs = obs.overs + 1]
    /\ UNCHANGED <<targetsRef, state, frames>>

\* update(time), with the position randomRange gives a target spawned in
\* this step and the milliseconds by which spawnTarget's Date.now() is later
\* than tick's.
Update(time, pos, skew, cap) ==
    LET cursorX == Smooth(state.cursorX, RawX(cursorRef))
        cursorY == Smooth(state.cursorY, RawY(cursorRef))
        isPinching == cursorRef.isPinching
        didShoot == DidShoot(isPinching, state.isPinchingPrevious)
        spawn == SpawnDue(time, state.lastSpawn)
        spawned == IF spawn THEN Append(targetsRef, NewTarget(pos, time + skew))
                   ELSE targetsRef
        i == IF didShoot THEN HitIndex(spawned, time, cursorX, cursorY) ELSE 0
        marked == MarkHit(spawned, i)
        hit == i # 0
    IN  /\ frames < cap
        /\ state' = [state EXCEPT
                       !.cursorX = cursorX,
                       !.cursorY = cursorY,
                       !.isPinchingPrevious = isPinching,
                       !.lastSpawn = IF spawn THEN time ELSE @,
                       !.currentStreak = NextStreak(@, didShoot, hit),
                       !.reactionTimes =
                           IF hit THEN Append(@, time - spawned[i].spawnTime) ELSE @]
        /\ statsRef' = NextStats(statsRef, state.currentStreak, didShoot, hit)
        /\ targetsRef' = Cleanup(marked, time)
        /\ tickScheduled' = TRUE
        /\ now' = IF spawn THEN time + skew ELSE time
        /\ frames' = frames + 1
        /\ obs' = [kind |-> "update", time |-> time, didShoot |-> didShoot,
                   spawned |-> spawn, cursor |-> cursorRef, pre |-> spawned,
                   post |-> marked, overs |-> obs.overs,
                   spawnCount |-> obs.spawnCount + (IF spawn THEN 1 ELSE 0),
                   expireCount |-> obs.expireCount
                       + Cardinality({j \in 1..Len(marked) :
                             ~marked[j].isHit /\ ~Survives(marked[j], time)}),
                   log |-> IF hit THEN Append(obs.log, "hit")
                           ELSE IF didShoot THEN Append(obs.log, "miss")
                           ELSE obs.log]
        /\ UNCHANGED appVars

\* tick, the frame callback, d milliseconds after the clock was last read;
\* cap bounds the update calls of the run.
Tick(d, pos, skew, cap) ==
    /\ tickScheduled
    /\ LET time == now + d
           remaining == Remaining(time, state.startTime)
       IN  /\ timeLeft' = remaining
           /\ IF remaining <= 0 THEN GameOver(time) ELSE Update(time, pos, skew, cap)
    /\ UNCHANGED <<apiKey, cursorRef, session, lastCoach, tracker>>

\* ------------------------------------------------------------------ HandTracker
\* The hands the landmarker can report, by the two landmarks predictWebcam
\* reads (index finger tip 8, thumb tip 4), in 1/HandDen of the video frame:
\* a pinching hand and an open one.
PinchingHand == [indexTip |-> <<8, 8>>, thumbTip |-> <<8, 9>>]
OpenHand == [indexTip |-> <<9, 8>>, thumbTip |-> <<9, 12>>]
Hands == {PinchingHand, OpenHand}

\* results.landmarks of a detection: no hand, or one hand (numHands: 1).
Detections == {<<>>} \cup {<<h>> : h \in Hands}

\* The HandCursor predictWebcam builds from a hand: x mirrored, y as is,
\* isPinching when the two tips are closer than 0.1.
CursorOf(hand) ==
    [x |-> HandDen - hand.indexTip[1],
     y |-> hand.indexTip[2],
     isPinching |-> DistSq(hand.indexTip[1], hand.indexTip[2],
                           hand.thumbTip[1], hand.thumbTip[2]) * 100 < HandDen * HandDen]

\* A detection that reports the centre of the frame when it sees no hand.
CursorWritesAlways(landmarks) ==
    IF Len(landmarks) > 0 THEN <<CursorOf(landmarks[1])>>
    ELSE <<[x |-> HandDen \div 2, y |-> HandDen \div 2, isPinching |-> FALSE]>>

\* The onCursorUpdate calls of one detection: one when a hand was found.
CursorWrites(landmarks) ==
    IF Len(landmarks) > 0 THEN <<CursorOf(landmarks[1])>> ELSE <<>>

\* One call of predictWebcam on tracker state tr and slot value slot, the
\* video having advanced by adv frames and the landmarker reporting
\* landmarks: the tracker and the slot after it.
Predicted(tr, slot, adv, landmarks) ==
    IF ~tr.landmarker \/ ~tr.videoRef
    THEN [tracker |-> [tr EXCEPT !.scheduled = FALSE, !.cycles = @ + 1,
                                 !.lastDetect = "return"],
          slot |-> slot]
    ELSE LET currentTime == tr.videoTime + adv
             fresh == tr.lastVideoTime # currentTime
             writes == IF fresh THEN CursorWrites(landmarks) ELSE <<>>
         IN  [tracker |->
                [tr EXCEPT !.videoTime = currentTime,
                           !.lastVideoTime = currentTime,
                           !.scheduled = TRUE,
                           !.cycles = @ + 1,
                           !.lastDetect = IF ~fresh THEN "skip"
                                          ELSE IF Len(landmarks) > 0 THEN "hand"
                                          ELSE "nohands",
                           !.lastWrite = IF Len(writes) > 0 THEN writes[1] ELSE @,
                           !.lastWriteAt = IF Len(writes) > 0 THEN frames ELSE @,
                           !.prevWrite = IF Len(writes) > 0 THEN tr.lastWrite ELSE @,
                           !.prevWriteAt = IF Len(writes) > 0 THEN tr.lastWriteAt ELSE @],
              slot |-> IF Len(writes) > 0 THEN SlotAfter(slot, writes[1]) ELSE slot]

\* One await of init settles: forVisionTasks, then createFromOptions, then
\* getUserMedia.  A rejection goes to the catch block; the stream of a
\* resolved getUserMedia is attached only when the video element is there.
InitSettles(ok) ==
    /\ tracker.pc \in {"vision", "landmarker", "camera"}
    /\ tracker' =
          IF ~ok
          THEN [tracker EXCEPT !.pc = "failed",
                               !.error = tracker.mounted,
                               !.loading = IF tracker.mounted THEN FALSE ELSE @]
          ELSE IF tracker.pc = "vision" THEN [tracker EXCEPT !.pc = "landmarker"]
          ELSE IF tracker.pc = "landmarker"
          THEN [tracker EXCEPT !.pc = "camera", !.landmarker = TRUE]
          ELSE IF tracker.videoRef
          THEN [tracker EXCEPT !.pc = "attached", !.stream = "live", !.srcObject = TRUE]
          ELSE [tracker EXCEPT !.pc = "done", !.stream = "live"]
    /\ UNCHANGED <<now, apiKey, appVars, cursorRef, canvasVars, frames, session, obs,
                   lastCoach>>

\* The video element fires loadeddata: setLoading(false) and the first call
\* of predictWebcam.
LoadedData(adv, landmarks) ==
    /\ tracker.pc = "attached"
    /\ tracker.stream = "live"
    /\ LET p == Predicted([tracker EXCEPT !.pc = "running",
                                          !.loading = IF tracker.mounted THEN FALSE ELSE @],
                          cursorRef, adv, landmarks)
       IN  /\ tracker' = p.tracker
           /\ cursorRef' = p.slot
    /\ UNCHANGED <<now, apiKey, appVars, canvasVars, frames, session, obs, lastCoach>>

\* The animation frame requested by predictWebcam fires.
PredictWebcam(adv, landmarks) ==
    /\ tracker.scheduled
    /\ tracker.cycles < MaxCycles
    /\ LET p == Predicted(tracker, cursorRef, adv, landmarks)
       IN  /\ tracker' = p.tracker
           /\ cursorRef' = p.slot
    /\ UNCHANGED <<now, apiKey, appVars, canvasVars, frames, session, obs, lastCoach>>

\* The page is torn down: App unmounts with HandTracker and, while playing,
\* GameCanvas.  GameCanvas's cleanup cancels its animation frame.
\* HandTracker's cleanup stops the tracks of videoRef.current.srcObject when
\* videoRef.current is still set as it runs (refDetached says React has
\* already cleared the ref); it does not cancel requestRef.
Unmount(refDetached) ==
    /\ tracker.mounted
    /\ tracker' = [tracker EXCEPT
                     !.mounted = FALSE,
                     !.videoRef = FALSE,
                     !.stream = IF ~refDetached /\ tracker.srcObject /\ @ = "live"
                                THEN "stopped" ELSE @]
    /\ tickScheduled' = FALSE
    /\ UNCHANGED <<now, apiKey, appVars, cursorRef, targetsRef, statsRef, state, timeLeft,
                   frames, session, obs, lastCoach>>

\* ------------------------------------------------------------------ specifications
\* The whole program: sessions, retries and the coach.
Next ==
    \/ \E c \in HandCursors : HandleCursorUpdate(c)
    \/ StartGame
    \/ MainMenu
    \/ \E s \in 1..MaxSessions, r \in Responses : CoachSettles(s, r)
    \/ \E d \in FrameDeltas, sp \in Spawns : Tick(d, sp.pos, sp.skew, MaxFrames)

Spec == Init /\ [][Next]_vars

\* The page loaded with an API key configured.
InitKey == Init /\ apiKey = "key"

\* The first session, from the menu to its game over, with targets at
\* several places, a moving hand and frames of several lengths.
NextPlay ==
    \/ \E c \in PlayCursors : gameState # "summary" /\ HandleCursorUpdate(c)
    \/ gameState = "menu" /\ StartGame
    \/ \E d \in PlayDeltas, sp \in PlaySpawns : Tick(d, sp.pos, sp.skew, MaxFrames)

SpecPlay == InitKey /\ [][NextPlay]_vars

\* A whole session in which the hand never pinches.
NextIdle ==
    \/ gameState = "menu" /\ StartGame
    \/ \E d \in IdleDeltas, sp \in Spawns : Tick(d, sp.pos, sp.skew, MaxIdleFrames)

SpecIdle == InitKey /\ [][NextIdle]_vars

\* The hand tracker from its mount to the teardown of the page, with the
\* sessions the user starts meanwhile.
NextTracker ==
    \/ \E ok \in BOOLEAN : InitSettles(ok)
    \/ \E adv \in {0, 1}, l \in Detections : LoadedData(adv, l)
    \/ \E adv \in {0, 1}, l \in Detections : PredictWebcam(adv, l)
    \/ \E refDetached \in BOOLEAN : Unmount(refDetached)
    \/ tracker.mounted /\ StartGame
    \/ \E d \in FrameDeltas, sp \in Spawns : Tick(d, sp.pos, sp.skew, MaxFrames)

SpecTracker == InitKey /\ [][NextTracker]_vars

\* ------------------------------------------------------------------ properties
\* The update step that has just run: obs holds its time, the cursor it read,
\* the target list it hit-tested (pre) and that list after the shot (post);
\* state.cursorX, state.cursorY are the smoothed cursor it used.
Updated == obs.kind = "update"

\* Target t qualifies at the step: not yet hit, younger than its lifetime, and
\* its centre strictly within its radius of the smoothed cursor.
Qualifies(t) ==
    /\ ~t.isHit
    /\ obs.time - t.spawnTime < t.lifeTime
    /\ (state.cursorX - t.x) * (state.cursorX - t.x)
         + (state.cursorY - t.y) * (state.cursorY - t.y) < t.radius * t.radius

Qualifying == {i \in DOMAIN obs.pre : Qualifies(obs.pre[i])}

\* The targets that went from not hit to hit in the step.
TurnedHit == {i \in DOMAIN obs.pre : ~obs.pre[i].isHit /\ obs.post[i].isHit}

\* The number of hits the log of shots ends with.
RECURSIVE TrailingHits(_)
TrailingHits(log) ==
    IF log = <<>> \/ log[Len(log)] # "hit" THEN 0
    ELSE 1 + TrailingHits(SubSeq(log, 1, Len(log) - 1))

\* A step of the run is an update step.
UpdateStep == frames' = frames + 1

\* The pinch the previous update step of the session read, if there was one.
PinchSeenBefore == obs.kind = "update" /\ obs.cursor.isPinching

Shots(s) == s.hits + s.misses

\* C1: a shoot event with at least one qualifying target turns exactly one
\* target to hit, and that target is the most recently spawned of the
\* qualifying ones.
C1_OneHitMostRecent ==
    (Updated /\ obs.didShoot /\ Qualifying # {}) =>
        /\ Cardinality(TurnedHit) = 1
        /\ \A i \in TurnedHit :
              /\ i \in Qualifying
              /\ \A j \in Qualifying : obs.pre[j].spawnTime <= obs.pre[i].spawnTime

\* A shot at two targets that both qualify.
C1_Witness ==
    /\ Updated /\ obs.didShoot
    /\ Cardinality(Qualifying) >= 2
    /\ Cardinality(TurnedHit) = 1
    /\ statsRef.hits >= 1

\* C2: a shoot event with no qualifying target adds exactly 1 to misses, sets
\* currentStreak to 0 and leaves score unchanged.
C2_MissEffect ==
    [][(UpdateStep /\ obs'.didShoot /\ Qualifying' = {}) =>
          /\ statsRef'.misses = statsRef.misses + 1
          /\ state'.currentStreak = 0
          /\ statsRef'.score = statsRef.score]_vars

\* A miss that ended a streak.
C2_Witness ==
    /\ Updated /\ obs.didShoot /\ Qualifying = {}
    /\ obs.log = <<"hit", "miss">>
    /\ state.currentStreak = 0
    /\ statsRef.score = 100

\* C3: an update step counts a shoot event (one more hit or miss) exactly
\* when the cursor it reads is pinching and the previous step of the session
\* did not read a pinch: a pinch held over several steps is one shoot event.
C3_OneShotPerPinch ==
    [][UpdateStep =>
          Shots(statsRef') = Shots(statsRef)
              + (IF cursorRef.isPinching /\ ~PinchSeenBefore THEN 1 ELSE 0)]_vars

\* The third step of a pinch held since the first: one shot in all.
C3_Witness ==
    /\ Updated /\ frames = 3
    /\ obs.cursor.isPinching /\ state.isPinchingPrevious
    /\ ~obs.didShoot
    /\ Shots(statsRef) = 1

\* C4: the k-th hit of a run of k consecutive hits adds 100 + 10 * (k - 1) to
\* the score.
C4_StreakScore ==
    [][(UpdateStep /\ statsRef'.hits = statsRef.hits + 1) =>
          statsRef'.score = statsRef.score + 100 + 10 * (TrailingHits(obs'.log) - 1)]_vars

\* The second hit of a run: 100, then 110.
C4_Witness ==
    /\ Updated /\ obs.didShoot
    /\ obs.log = <<"hit", "hit">>
    /\ statsRef.score = 210
    /\ state.currentStreak = 2

\* The value of a ratio <<n, d>> is q.n / q.d.
RatioIs(r, n, d) == r[2] > 0 /\ d > 0 /\ r[1] * d = n * r[2]
RatioIsZero(r) == r[2] > 0 /\ r[1] = 0

\* Target t is in list ts.
InList(t, ts) == \E k \in DOMAIN ts : ts[k] = t

\* C5: at session expiry accuracy is hits / (hits + misses) * 100, or 0 when
\* no shot was fired, and avgReactionTime is the mean of the recorded
\* reaction times, or 0 when there was no hit; these are the stats handed over.
C5_DerivedStats ==
    obs.kind = "over" =>
        /\ IF Shots(statsRef) = 0
           THEN RatioIsZero(statsRef.accuracy)
           ELSE RatioIs(statsRef.accuracy, statsRef.hits * 100, Shots(statsRef))
        /\ IF statsRef.hits = 0
           THEN RatioIsZero(statsRef.avgReactionTime)
           ELSE RatioIs(statsRef.avgReactionTime, SumSeq(state.reactionTimes),
                        Len(state.reactionTimes))
        /\ stats = [null |-> FALSE, value |-> statsRef]

\* A session that expired with one hit and one miss: accuracy 50.
C5_Witness ==
    /\ obs.kind = "over"
    /\ statsRef.hits = 1 /\ statsRef.misses = 1
    /\ statsRef.accuracy = <<100, 2>>
    /\ Len(state.reactionTimes) = 1

\* C6: after an update step the target list holds, of the targets that were
\* not hit, exactly those whose age is below their lifetime (an expired one
\* is gone by the first step that finds it expired, a live one stays); and a
\* step in which no shot fires changes no stat and not the streak, whatever
\* expires in it.
C6_SilentExpiry ==
    [][UpdateStep =>
          /\ \A i \in DOMAIN obs'.pre :
                ~obs'.post[i].isHit =>
                    (InList(obs'.pre[i], targetsRef')
                        <=> obs'.time - obs'.pre[i].spawnTime < obs'.pre[i].lifeTime)
          /\ \A k \in DOMAIN targetsRef' : InList(targetsRef'[k], obs'.pre)
          /\ ~(cursorRef.isPinching /\ ~state.isPinchingPrevious) =>
                /\ statsRef' = statsRef
                /\ state'.currentStreak = state.currentStreak
                /\ state'.reactionTimes = state.reactionTimes]_vars

\* A target expired, at the age of exactly its lifetime, during a streak of
\* one: the streak and the stats are those of the hit.
C6_Witness ==
    /\ Updated /\ ~obs.didShoot
    /\ \E i \in DOMAIN obs.pre :
          /\ obs.time - obs.pre[i].spawnTime = obs.pre[i].lifeTime
          /\ ~InList(obs.pre[i], targetsRef)
    /\ obs.expireCount = 1
    /\ state.currentStreak = 1 /\ statsRef.hits = 1 /\ statsRef.misses = 0
    /\ statsRef.score = 100

\* The cursor lies on the boundary circle of active target t.
BoundaryAt(t, time, cx, cy) ==
    /\ ~t.isHit
    /\ time - t.spawnTime < t.lifeTime
    /\ (cx - t.x) * (cx - t.x) + (cy - t.y) * (cy - t.y) = t.radius * t.radius

OnBoundary(t) == BoundaryAt(t, obs.time, state.cursorX, state.cursorY)

\* C7: a shoot event with the smoothed cursor exactly on a target's boundary
\* circle and within no other target is a miss.
C7_BoundaryIsMiss ==
    [][(UpdateStep /\ obs'.didShoot /\ Qualifying' = {}
          /\ \E i \in DOMAIN obs'.pre :
                BoundaryAt(obs'.pre[i], obs'.time, state'.cursorX, state'.cursorY)) =>
          /\ statsRef'.misses = statsRef.misses + 1
          /\ statsRef'.hits = statsRef.hits
          /\ TurnedHit' = {}
          /\ \E k \in DOMAIN targetsRef' :
                BoundaryAt(targetsRef'[k], obs'.time, state'.cursorX, state'.cursorY)]_vars

\* A shot from (640, 360) at the target centred at (616, 328), 40 away.
C7_Witness ==
    /\ Updated /\ obs.didShoot
    /\ state.cursorX = 640 /\ state.cursorY = 360
    /\ \E i \in DOMAIN obs.pre :
          OnBoundary(obs.pre[i]) /\ obs.pre[i].x = 616 /\ obs.pre[i].y = 328
    /\ obs.log = <<"miss">>
    /\ statsRef.misses = 1

\* A session has expired without a shoot event.
IdleOver == obs.kind = "over" /\ obs.log = <<>>

\* C8 as stated: a 30 s session without a shot ends with hits, misses, score
\* and accuracy 0 and with 37 (give or take 1) targets spawned and expired.
C8_AsStated ==
    IdleOver =>
        /\ statsRef.hits = 0 /\ statsRef.misses = 0 /\ statsRef.score = 0
        /\ RatioIsZero(statsRef.accuracy)
        /\ obs.expireCount \in 36..38

\* C8, amended: such a session ends with hits, misses, score and accuracy 0;
\* at most 38 targets were spawned and at most 34 of them expired, the others
\* (those spawned in the last 3 s) being still in the list.
C8_IdleSession ==
    IdleOver =>
        /\ statsRef.hits = 0 /\ statsRef.misses = 0 /\ statsRef.score = 0
        /\ RatioIsZero(statsRef.accuracy)
        /\ obs.spawnCount <= 38
        /\ obs.expireCount <= 34
        /\ obs.spawnCount - obs.expireCount = Len(targetsRef)

\* A frame every 801 ms: 37 targets spawned, 33 expired, 4 still in the list.
C8_Witness ==
    /\ IdleOver
    /\ obs.spawnCount = 37
    /\ obs.expireCount = 33
    /\ Len(targetsRef) = 4
    /\ statsRef = [NoStats EXCEPT !.accuracy = <<0, 1>>]

\* Milliseconds of the session elapsed at the last tick.
Elapsed == obs.time - state.startTime

\* C9: the tick that finds no time remaining (and no earlier one) ends the
\* session: update never runs at or after the duration; game over happens at
\* most once per session, hands the finalized stats to the summary and leaves
\* no frame scheduled; and from then on nothing of the session (stats, targets,
\* session state) changes while that session is the current one.
C9_ExpiryTerminal ==
    /\ [](/\ obs.kind = "update" => Elapsed < GameDuration * 1000
          /\ obs.kind = "over" =>
                /\ Elapsed >= GameDuration * 1000
                /\ ~tickScheduled
                /\ obs.overs = 1
          /\ obs.overs <= 1
          /\ gameState = "summary" =>
                /\ obs.kind = "over"
                /\ stats = [null |-> FALSE, value |-> statsRef]
          /\ gameState = "playing" <=> tickScheduled)
    /\ [][(obs.kind = "over" /\ session' = session) =>
             UNCHANGED <<statsRef, targetsRef, state, obs, tickScheduled, frames>>]_vars

\* The second session has expired, with a hit in it, and its summary is shown.
C9_Witness ==
    /\ obs.kind = "over" /\ obs.overs = 1
    /\ session = 2
    /\ gameState = "summary"
    /\ statsRef.hits >= 1
    /\ ~tickScheduled

\* A structured response: an object carrying summary, tips and rank.
Structured(v) == v.kind = "object" /\ {"summary", "tips", "rank"} \subseteq v.keys

\* C10: whatever the collaborator answers, getCoachFeedback does not throw
\* and settles to a structured response.
C10_AlwaysStructured ==
    lastCoach.session # 0 => (~lastCoach.threw /\ Structured(lastCoach.value))

\* ------------------------------------------------------------- the summary screen
\* The AI panel of the summary: the spinner while loading, else the feedback
\* when aiFeedback is truthy, else the "Connection to HQ lost" text.  The
\* feedback branch evaluates aiFeedback.tips.map(...), which throws a
\* TypeError when the object carries no tips.
AiPanel(loading, feedback) ==
    IF loading THEN [panel |-> "pending", content |-> "none"]
    ELSE IF feedback.kind = "null" THEN [panel |-> "offline", content |-> "none"]
    ELSE IF "tips" \notin feedback.keys THEN [panel |-> "crash", content |-> "none"]
    ELSE [panel |-> "feedback", content |-> feedback.from]

\* What the summary branch of App renders: nothing unless gameState is
\* 'summary' with stats set; the stats cards and the AI panel otherwise.  An
\* exception thrown while rendering the panel takes the whole screen down
\* (there is no error boundary).
SummaryScreen ==
    LET ai == AiPanel(isLoadingFeedback, aiFeedback)
    IN  IF gameState # "summary" \/ stats.null
        THEN [visible |-> FALSE, crashed |-> FALSE,
              stats |-> [null |-> TRUE, value |-> NoStats], panel |-> "none",
              content |-> "none"]
        ELSE IF ai.panel = "crash"
        THEN [visible |-> FALSE, crashed |-> TRUE,
              stats |-> [null |-> TRUE, value |-> NoStats], panel |-> "crash",
              content |-> "none"]
        ELSE [visible |-> TRUE, crashed |-> FALSE, stats |-> stats, panel |-> ai.panel,
              content |-> ai.content]

\* The malformed answers of the collaborator: empty text, text that is no
\* JSON, JSON without tips and rank.
Malformed == {"empty", "garbage", "partial"}

\* The summary of the current session, after its own coach request has
\* settled with nothing else outstanding.
OwnCoachSettled ==
    /\ gameState = "summary"
    /\ lastCoach.session = session
    /\ calls = {}
    /\ apiKey # ""

\* C11: after a malformed answer of the collaborator the summary screen does
\* not crash and shows fallback content (the fallback of a failed request, or
\* the offline text).
C11_MalformedIsFallback ==
    (OwnCoachSettled /\ lastCoach.response \in Malformed) =>
        /\ ~SummaryScreen.crashed
        /\ \/ SummaryScreen.panel = "offline"
           \/ SummaryScreen.panel = "feedback" /\ SummaryScreen.content = "catch"

\* C12: whatever the coach call does (outstanding, failed, answered), the
\* summary screen shows the stats the session finalized.
C12_StatsIndependent ==
    (gameState = "summary" /\ obs.kind = "over") =>
        /\ SummaryScreen.visible
        /\ SummaryScreen.stats = [null |-> FALSE, value |-> statsRef]

\* C13: a coach request is outstanding only for a session that has ended, and
\* while the request of the summary's own session is outstanding the summary
\* is in its pending state.
C13_PendingUntilSettled ==
    /\ \A s \in calls :
          /\ s <= session
          /\ s = session => (obs.kind = "over" /\ gameState # "playing")
    /\ (gameState = "summary" /\ session \in calls) => isLoadingFeedback

\* ------------------------------------------------------------- the hand tracker
\* C14: once the page is torn down no animation frame of the tick loop or of
\* the detection loop is pending and no acquired camera stream is still live.
C14_CleanTeardown ==
    ~tracker.mounted =>
        /\ ~tickScheduled
        /\ ~tracker.scheduled
        /\ tracker.stream # "live"

\* C15: once the init of camera and model has failed, no step takes the UI
\* into 'playing'.
C15_FailureIsFatal ==
    [][tracker.pc = "failed" => ~(gameState # "playing" /\ gameState' = "playing")]_vars

\* A call of predictWebcam has run in the step.
DetectionCycle == tracker'.cycles = tracker.cycles + 1

\* C16: a detection cycle that finds no hand leaves the shared cursor as it
\* was: x, y and isPinching keep the values last written.
C16_NoHandNoWrite ==
    [][(DetectionCycle /\ tracker'.lastDetect = "nohands") =>
          /\ cursorRef' = cursorRef
          /\ cursorRef'.x = tracker.lastWrite.x
          /\ cursorRef'.y = tracker.lastWrite.y
          /\ cursorRef'.isPinching = tracker.lastWrite.isPinching]_vars

\* A cycle without a hand has run after a pinching hand was written, and the
\* slot still holds the pinching hand.
C16_Witness ==
    /\ tracker.lastDetect = "nohands"
    /\ tracker.cycles >= 2
    /\ cursorRef = CursorOf(PinchingHand)
    /\ cursorRef.isPinching

\* C17: the slot always holds the HandCursor of the latest onCursorUpdate
\* call, whole, and an update step computes its cursor position, its pinch
\* flag and its shot from that value.
C17_LastWriteWins ==
    /\ [](cursorRef = tracker.lastWrite)
    /\ [][UpdateStep =>
            /\ obs'.cursor = tracker.lastWrite
            /\ state'.cursorX = Smooth(state.cursorX, RawX(tracker.lastWrite))
            /\ state'.cursorY = Smooth(state.cursorY, RawY(tracker.lastWrite))
            /\ state'.isPinchingPrevious = tracker.lastWrite.isPinching
            /\ obs'.didShoot = DidShoot(tracker.lastWrite.isPinching,
                                        state.isPinchingPrevious)]_vars

\* Two detection cycles wrote between two update steps, a pinching hand and
\* then an open one: the step that followed read the open hand, and no step
\* ever saw the pinch (no shot was fired).
C17_Witness ==
    /\ obs.kind = "update"
    /\ frames >= 2
    /\ tracker.prevWriteAt = frames - 1
    /\ tracker.lastWriteAt = frames - 1
    /\ tracker.prevWrite = CursorOf(PinchingHand)
    /\ obs.cursor = CursorOf(OpenHand)
    /\ obs.cursor # CursorOf(PinchingHand)
    /\ state.cursorX # CANVAS_WIDTH \div 2
    /\ ~state.isPinchingPrevious
    /\ statsRef.hits + statsRef.misses = 0

\* ------------------------------------------------------------- targets, continued
\* C18 as stated: the target hit in a step is still in the list, marked hit,
\* at the end of that step.
C18_AsStated ==
    (Updated /\ TurnedHit # {}) =>
        \E k \in DOMAIN targetsRef : targetsRef[k].isHit

\* C18: a target that is hit is removed from the list in the very step in
\* which it was hit; no target marked hit is ever in the list at the end of
\* a step.
C18_RemovedSameStep ==
    /\ \A k \in DOMAIN targetsRef : ~targetsRef[k].isHit
    /\ Updated =>
          /\ \A i \in TurnedHit :
                /\ ~InList(obs.post[i], targetsRef)
                /\ ~InList(obs.pre[i], targetsRef)
          /\ Len(targetsRef) <= Len(obs.post) - Cardinality(TurnedHit)

\* A step has hit a target and left another one in the list.
C18_Witness ==
    /\ Updated
    /\ TurnedHit # {}
    /\ Len(targetsRef) >= 1

\* The target's age has reached its lifetime at the step.
Aged(t) == obs.time - t.spawnTime >= t.lifeTime

\* The targets of the step the smoothed cursor is strictly within.
Under == {i \in DOMAIN obs.pre :
            Within(state.cursorX, state.cursorY, obs.pre[i])}

\* C19: a target whose age has reached its lifetime is not hit, though it is
\* still in the list as the step starts and the cursor is within it; a shot
\* with only such targets under the cursor is a miss.
C19_ExpiredNeverHit ==
    Updated =>
        /\ \A i \in DOMAIN obs.pre : Aged(obs.pre[i]) => ~obs.post[i].isHit
        /\ (obs.didShoot /\ \A i \in Under : Aged(obs.pre[i])) =>
              /\ TurnedHit = {}
              /\ Len(obs.log) > 0
              /\ obs.log[Len(obs.log)] = "miss"
              /\ state.currentStreak = 0

\* A shot was fired with the cursor within a target that was in the list as
\* the step started but had reached its lifetime: it was counted as a miss.
C19_Witness ==
    /\ Updated
    /\ obs.didShoot
    /\ \E i \in Under : Aged(obs.pre[i]) /\ ~obs.pre[i].isHit /\ i < Len(obs.pre)
    /\ TurnedHit = {}
    /\ statsRef.misses >= 1

\* C20: an update step spawns one target when more than 800ms have passed
\* since the last spawn and then sets the spawn timer to the step's time;
\* otherwise it spawns none and leaves the timer; whether a shot is fired
\* plays no part.
C20_SpawnTimer ==
    [][UpdateStep =>
         LET due == obs'.time - state.lastSpawn > SpawnInterval
         IN  /\ obs'.spawned = due
             /\ Len(obs'.pre) = Len(targetsRef) + (IF due THEN 1 ELSE 0)
             /\ SubSeq(obs'.pre, 1, Len(targetsRef)) = targetsRef
             /\ due => ~obs'.pre[Len(obs'.pre)].isHit
             /\ state'.lastSpawn = IF due THEN obs'.time ELSE state.lastSpawn
             /\ obs'.spawnCount = obs.spawnCount + (IF due THEN 1 ELSE 0)]_vars

\* A step exactly 800ms after the last spawn fired a shot and spawned nothing.
C20_Witness ==
    /\ Updated
    /\ obs.didShoot
    /\ ~obs.spawned
    /\ obs.time - state.lastSpawn = SpawnInterval

\* ------------------------------------------------------------- sessions and the UI
\* GameCanvas has just mounted for a session and has not run a step yet.
SessionStart == obs.kind = "mount"

\* C21: as a session starts, first or retried, score, hits, misses,
\* bestStreak and currentStreak are 0, reactionTimes and the target list are
\* empty and isPinchingPrevious is false; the stats handed over at the end of
\* a session are changed by no later step.
C21_FreshSession ==
    /\ [](SessionStart =>
            /\ statsRef.score = 0 /\ statsRef.hits = 0 /\ statsRef.misses = 0
            /\ statsRef.bestStreak = 0
            /\ state.currentStreak = 0
            /\ state.reactionTimes = <<>>
            /\ targetsRef = <<>>
            /\ ~state.isPinchingPrevious
            /\ Len(handed) = session - 1)
    /\ [][\A s \in DOMAIN handed :
             s \in DOMAIN handed' /\ handed'[s] = handed[s]]_vars
    /\ [](gameState = "summary" =>
            /\ Len(handed) = session
            /\ stats = [null |-> FALSE, value |-> handed[session]])

\* The second session starts from zero after a first one that scored, with
\* the hand pinching as it starts.
C21_Witness ==
    /\ SessionStart
    /\ session = 2
    /\ handed[1].hits >= 1
    /\ handed[1].score >= ScoreBase
    /\ statsRef.hits = 0
    /\ cursorRef.isPinching

\* A coach request has settled in the step.
CoachSettled == calls' # calls /\ calls' \subseteq calls

\* C22: the UI state is menu, playing or summary and changes only by start
\* (menu to playing), timer expiry (playing to summary), retry (summary to
\* playing) and the menu button (summary to menu); a settling coach request
\* leaves it alone and a frame callback is pending only while playing.
C22_UiStateMachine ==
    /\ [](gameState \in {"menu", "playing", "summary"})
    /\ [][gameState' # gameState =>
            \/ /\ gameState = "menu" /\ gameState' = "playing"
               /\ session' = session + 1
            \/ /\ gameState = "playing" /\ gameState' = "summary"
               /\ obs'.kind = "over" /\ timeLeft' = 0
               /\ obs'.time - state.startTime >= GameDuration * 1000
            \/ /\ gameState = "summary" /\ gameState' = "playing"
               /\ session' = session + 1
            \/ /\ gameState = "summary" /\ gameState' = "menu"]_vars
    /\ [][CoachSettled => gameState' = gameState]_vars
    /\ [](tickScheduled => gameState = "playing")

\* The coach request of the first session settled while the second was
\* being played; the second has since ended and the user is back at the menu.
C22_Witness ==
    /\ gameState = "menu"
    /\ session = 2
    /\ lastCoach.session = 1
    /\ lastCoach.during = "playing"
    /\ Len(handed) = 2

\* ------------------------------------------------------------- shots and samples
\* A shoot event fires in the update step that is being taken: the slot
\* holds a pinch and the previous step of the session read none.
ShootEvent == cursorRef.isPinching /\ ~state.isPinchingPrevious

\* The hits in the log of the session's shots.
LoggedHits == Cardinality({i \in DOMAIN obs.log : obs.log[i] = "hit"})

\* C23: in a session hits + misses is the number of shoot events fired so
\* far, each counted once as a hit or as a miss, and there is one reaction
\* time sample per hit.
C23_ShotsCounted ==
    /\ [](/\ Shots(statsRef) = Len(obs.log)
          /\ statsRef.hits = LoggedHits
          /\ Len(state.reactionTimes) = statsRef.hits)
    /\ [][UpdateStep =>
            /\ Shots(statsRef') = Shots(statsRef) + (IF ShootEvent THEN 1 ELSE 0)
            /\ statsRef'.hits - statsRef.hits \in {0, 1}
            /\ statsRef'.misses - statsRef.misses \in {0, 1}
            /\ Len(state'.reactionTimes) - Len(state.reactionTimes)
                  = statsRef'.hits - statsRef.hits]_vars

\* Two shoot events in a session, a miss and then a hit: two shots counted,
\* one sample recorded.
C23_Witness ==
    /\ obs.log = <<"miss", "hit">>
    /\ statsRef.hits = 1 /\ statsRef.misses = 1
    /\ Len(state.reactionTimes) = 1

\* C24: coach feedback displayed on a summary is the answer to the request
\* issued for the session whose stats that summary shows.
C24_FeedbackOfSession ==
    (SummaryScreen.visible /\ SummaryScreen.panel = "feedback") =>
        /\ aiFeedback = lastCoach.value
        /\ lastCoach.session = session

\* C25: every recorded reaction time is at least 0 and below the lifetime of
\* a target.
C25_ReactionInRange ==
    \A i \in DOMAIN state.reactionTimes :
        /\ 0 <= state.reactionTimes[i]
        /\ state.reactionTimes[i] < LifeTime

====
